---- MODULE Spec2Model ----
(***************************************************************************)
(* Model of metrics_monitor: main() starts one check_website task per      *)
(* configured site; each task sleeps, probes the site over HTTP and        *)
(* stores a WebsiteMetrics record through a semaphore-gated pool           *)
(* connection.                                                             *)
(***************************************************************************)
EXTENDS Integers, Sequences, FiniteSets, TLC

\* ---------------------------------------------------------------- bounds
\* longest monitoring config (number of JSON entries) that is explored
MaxSpecs == 2
\* largest value of the semaphore_max_concurrent setting that is explored
MaxCapacity == 2
\* largest value of the pool_max_size setting that is explored
MaxPool == 1
\* last reading of the clock (datetime.now()) that is explored
MaxClock == 2

Loops == 1..MaxSpecs

\* ----------------------------------------------------------- JSON values
JStr(s) == [t |-> "str", s |-> s, n |-> 0]
JInt(n) == [t |-> "int", s |-> "", n |-> n]
JNull == [t |-> "null", s |-> "", n |-> 0]
\* a key that the JSON object does not have
JAbsent == [t |-> "absent", s |-> "", n |-> 0]

\* the JSON objects a config file is built from: two valid entries, one
\* without "url", one whose "interval" is not a number
Entries ==
  { [url |-> JStr("http://a"), interval |-> JInt(1), regexp_pattern |-> JAbsent],
    [url |-> JStr("http://b"), interval |-> JInt(2), regexp_pattern |-> JStr("Health")],
    [url |-> JAbsent, interval |-> JInt(1), regexp_pattern |-> JNull],
    [url |-> JStr("http://a"), interval |-> JStr("soon"), regexp_pattern |-> JNull] }

SeqsUpTo(S, n) == UNION { [1..k -> S] : k \in 0..n }

\* input_file: text that is not JSON, or a JSON array of entries
InputFiles ==
  { [json |-> FALSE, value |-> <<>>] }
    \cup { [json |-> TRUE, value |-> v] : v \in SeqsUpTo(Entries, MaxSpecs) }

\* the environment Settings() reads: unusable, or the three values
SettingsEnvs ==
  { [ok |-> FALSE, semaphore_max_concurrent |-> 1, pool_max_size |-> 1] }
    \cup { [ok |-> TRUE, semaphore_max_concurrent |-> c, pool_max_size |-> p] :
             c \in 1..MaxCapacity, p \in 1..MaxPool }

\* ------------------------------------------------------------ exceptions
\* the classes an exception is an instance of
Bases(exc) ==
  CASE exc = "ClientError" -> {"ClientError", "Exception", "BaseException"}
    [] exc = "PostgresError" -> {"PostgresError", "Exception", "BaseException"}
    [] exc = "TypeError" -> {"TypeError", "Exception", "BaseException"}
    [] exc = "Exception" -> {"Exception", "BaseException"}
    [] exc = "CancelledError" -> {"CancelledError", "BaseException"}
    [] OTHER -> {"BaseException"}

\* (mutant) the catch-all clause is missing
ExceptClauses_NoCatchAll == <<"ClientError", "PostgresError">>

\* the except clauses of check_website_once, in order
ExceptClauses == <<"ClientError", "PostgresError", "Exception">>

\* the except clause that handles exc ("" when none does and exc propagates)
RECURSIVE FirstClause(_, _, _)
FirstClause(clauses, exc, k) ==
  IF k > Len(clauses) THEN ""
  ELSE IF clauses[k] \in Bases(exc) THEN clauses[k]
  ELSE FirstClause(clauses, exc, k + 1)

Handler(exc) == FirstClause(ExceptClauses, exc, 1)

\* ------------------------------------------------------------- variables
VARIABLES
  settings_env,        \* what Settings() finds in the environment
  input_file,          \* the argument of main
  main_pc,             \* where main is
  main_exc,            \* the exception main raised ("" when none)
  pool_free,           \* free connections of the asyncpg pool
  create_table_calls,  \* executions of create_table
  schema,              \* whether the website_metrics table exists
  website_metrics,     \* the rows of the table
  sem_value,           \* sem._value
  sem_waiters,         \* sem._waiters: the tasks queued in acquire()
  tasks,               \* the MonitorParams of the check_website coroutines
  pc,                  \* where each check_website task is
  response,            \* the open aiohttp response of each task (<<>>: none)
  metrics,             \* the WebsiteMetrics of each task's cycle (<<>>: none)
  cycle,               \* what each task's current or last cycle did
  now                  \* what datetime.now() returns

vars == <<settings_env, input_file, main_pc, main_exc, pool_free,
          create_table_calls, schema, website_metrics, sem_value, sem_waiters,
          tasks, pc, response, metrics, cycle, now>>

main_vars == <<main_pc, main_exc>>
db_vars == <<pool_free, create_table_calls, schema, website_metrics>>
sem_vars == <<sem_value, sem_waiters>>
loop_vars == <<pc, response, metrics, cycle>>
\* what the program is given: its environment, its argument, the clock
input_vars == <<settings_env, input_file, now>>

\* start_time: the local of check_website_once; entered_at: the clock when
\* prepare_website_metrics computed response_time; read_at: the clock when
\* response.text() returned
NewCycle == [exc |-> "", phase |-> "", handler |-> "", built |-> FALSE,
             gated |-> FALSE, rows |-> 0,
             start_time |-> 0, entered_at |-> 0, read_at |-> 0]

Init ==
  /\ settings_env \in SettingsEnvs
  /\ input_file \in InputFiles
  /\ main_pc = "settings"
  /\ main_exc = ""
  /\ pool_free = 0
  /\ create_table_calls = 0
  /\ schema = FALSE
  /\ website_metrics = <<>>
  /\ sem_value = 0
  /\ sem_waiters = <<>>
  /\ tasks = <<>>
  /\ pc = [i \in Loops |-> "unstarted"]
  /\ response = [i \in Loops |-> <<>>]
  /\ metrics = [i \in Loops |-> <<>>]
  /\ cycle = [i \in Loops |-> NewCycle]
  /\ now = 0

\* ------------------------------------------------------------------ main
\* main raises exc to its caller
MainRaise(exc) ==
  /\ main_pc' = "raised"
  /\ main_exc' = exc

\* settings = Settings().model_dump()
MainSettings ==
  /\ main_pc = "settings"
  /\ IF settings_env.ok
       THEN main_pc' = "create_pool" /\ main_exc' = main_exc
       ELSE MainRaise("SettingsInitializationError")
  /\ UNCHANGED <<input_vars, db_vars, sem_vars, tasks, loop_vars>>

\* (mutant) main goes on to the config without creating the table
AfterCreatePool_SkipSchema == "load_config"

\* the block main enters once the pool is open
AfterCreatePool == "create_table"

\* async with asyncpg.create_pool(...) as pool
MainCreatePool ==
  /\ main_pc = "create_pool"
  /\ \E ok \in BOOLEAN :
       IF ok
         THEN /\ pool_free' = settings_env.pool_max_size
              /\ main_pc' = AfterCreatePool
              /\ main_exc' = main_exc
         ELSE /\ MainRaise("PostgresError")
              /\ pool_free' = pool_free
  /\ UNCHANGED <<input_vars, create_table_calls, schema, website_metrics,
                 sem_vars, tasks, loop_vars>>

\* the phase of main that follows the block that creates the table
AfterCreateTable == "load_config"

\* (mutant) a failure of create_table is swallowed and main goes on
MainCreateTable_Swallow ==
  /\ main_pc = "create_table"
  /\ pool_free > 0
  /\ create_table_calls' = create_table_calls + 1
  /\ \E ok \in BOOLEAN :
       /\ schema' = (schema \/ ok)
       /\ main_pc' = AfterCreateTable
       /\ main_exc' = main_exc
  /\ UNCHANGED <<input_vars, pool_free, website_metrics, sem_vars, tasks,
                 loop_vars>>

\* async with pool.acquire() as conn: await create_table(conn)
\* CREATE TABLE IF NOT EXISTS either succeeds or raises
MainCreateTable ==
  /\ main_pc = "create_table"
  /\ pool_free > 0
  /\ create_table_calls' = create_table_calls + 1
  /\ \E ok \in BOOLEAN :
       IF ok
         THEN /\ schema' = TRUE
              /\ main_pc' = AfterCreateTable
              /\ main_exc' = main_exc
         ELSE /\ schema' = schema
              /\ MainRaise("PostgresError")
  /\ UNCHANGED <<input_vars, pool_free, website_metrics, sem_vars, tasks,
                 loop_vars>>

\* (mutant) the decoder's error is not wrapped
MainLoadConfig_Unwrapped ==
  /\ main_pc = "load_config"
  /\ sem_value' = settings_env.semaphore_max_concurrent
  /\ IF input_file.json
       THEN main_pc' = "build_tasks" /\ main_exc' = main_exc
       ELSE MainRaise("JSONDecodeError")
  /\ UNCHANGED <<input_vars, db_vars, sem_waiters, tasks, loop_vars>>

\* sem = asyncio.Semaphore(...); monitoring_args = json.load(input_file)
MainLoadConfig ==
  /\ main_pc = "load_config"
  /\ sem_value' = settings_env.semaphore_max_concurrent
  /\ IF input_file.json
       THEN main_pc' = "build_tasks" /\ main_exc' = main_exc
       ELSE MainRaise("ConfigDeserializationError")
  /\ UNCHANGED <<input_vars, db_vars, sem_waiters, tasks, loop_vars>>

\* MonitorParams(url=args["url"], interval=args["interval"],
\*               regexp_pattern=args.get("regexp_pattern")):
\* the exception it raises, "" when it builds the object
MonitorParamsError(args) ==
  IF args.url.t = "absent" \/ args.interval.t = "absent" THEN "KeyError"
  ELSE IF args.url.t # "str" \/ args.interval.t # "int"
          \/ args.regexp_pattern.t \notin {"str", "null", "absent"}
    THEN "ValidationError"
  ELSE ""

\* the MonitorParams object built from a JSON entry
MonitorParams(args) ==
  [url |-> args.url.s,
   interval |-> args.interval.n,
   regexp_pattern |->
     IF args.regexp_pattern.t = "str" THEN <<args.regexp_pattern.s>> ELSE <<>>]

\* (mutant) an entry that cannot be built is left out
RECURSIVE BuildTasks_SkipInvalid(_, _, _)
BuildTasks_SkipInvalid(monitoring_args, k, built) ==
  IF k > Len(monitoring_args) THEN [exc |-> "", tasks |-> built]
  ELSE IF MonitorParamsError(monitoring_args[k]) # ""
    THEN BuildTasks_SkipInvalid(monitoring_args, k + 1, built)
  ELSE BuildTasks_SkipInvalid(monitoring_args, k + 1,
                              Append(built, MonitorParams(monitoring_args[k])))

\* (mutant) every coroutine is bound to the last entry of the config
BuildTasks_LateBinding(monitoring_args, k, built) ==
  IF \E j \in 1..Len(monitoring_args) :
       MonitorParamsError(monitoring_args[j]) # ""
    THEN [exc |-> "ValidationError", tasks |-> <<>>]
  ELSE [exc |-> "",
        tasks |-> [j \in 1..Len(monitoring_args) |->
                     MonitorParams(monitoring_args[Len(monitoring_args)])]]

\* the list comprehension of main: one coroutine per entry, in order;
\* the first entry that cannot be built raises and ends the comprehension
RECURSIVE BuildTasks(_, _, _)
BuildTasks(monitoring_args, k, built) ==
  IF k > Len(monitoring_args) THEN [exc |-> "", tasks |-> built]
  ELSE IF MonitorParamsError(monitoring_args[k]) # ""
    THEN [exc |-> MonitorParamsError(monitoring_args[k]), tasks |-> <<>>]
  ELSE BuildTasks(monitoring_args, k + 1,
                  Append(built, MonitorParams(monitoring_args[k])))

\* tasks = [check_website(MonitorParams(...), pool, sem) for args in ...]
MainBuildTasks ==
  /\ main_pc = "build_tasks"
  /\ LET r == BuildTasks(input_file.value, 1, <<>>) IN
       IF r.exc = ""
         THEN /\ tasks' = r.tasks
              /\ main_pc' = "gather"
              /\ main_exc' = main_exc
         ELSE /\ tasks' = tasks
              /\ MainRaise(r.exc)
  /\ UNCHANGED <<input_vars, db_vars, sem_vars, loop_vars>>

\* the coroutines asyncio.gather wraps in tasks and starts
Started(ts) == 1..Len(ts)

\* (mutant) a started task issues its first request without sleeping
MainGather_ProbeFirst ==
  /\ main_pc = "gather"
  /\ pc' = [i \in Loops |-> IF i \in Started(tasks) THEN "request" ELSE pc[i]]
  /\ main_pc' = IF Len(tasks) = 0 THEN "returned" ELSE "gathering"
  /\ UNCHANGED <<input_vars, main_exc, db_vars, sem_vars, tasks, response,
                 metrics, cycle>>

\* (mutant) the tasks are started and main does not wait for them
MainGather_NotAwaited ==
  /\ main_pc = "gather"
  /\ pc' = [i \in Loops |-> IF i \in Started(tasks) THEN "sleeping" ELSE pc[i]]
  /\ main_pc' = "returned"
  /\ UNCHANGED <<input_vars, main_exc, db_vars, sem_vars, tasks, response,
                 metrics, cycle>>

\* await asyncio.gather(*tasks): every coroutine becomes a running task, which
\* runs to its first await (the sleep); with no coroutine, gather is done at
\* once and main returns
MainGather ==
  /\ main_pc = "gather"
  /\ pc' = [i \in Loops |-> IF i \in Started(tasks) THEN "sleeping" ELSE pc[i]]
  /\ main_pc' = IF Len(tasks) = 0 THEN "returned" ELSE "gathering"
  /\ UNCHANGED <<input_vars, main_exc, db_vars, sem_vars, tasks, response,
                 metrics, cycle>>

\* ------------------------------------------------------------ the probe
\* what a site answers: the status line and the body
Responses ==
  { [status |-> 200, body |-> "Health: 100%"],
    [status |-> 500, body |-> "Example"] }

\* re.search(regexp_pattern, content) finds a match
\* (the empty pattern matches at position 0 of every string)
re_search(regexp_pattern, content) ==
  \/ regexp_pattern = ""
  \/ <<regexp_pattern, content>> \in { <<"Health", "Health: 100%">>,
                                       <<"Example", "Example">> }

\* (mutant) the difference is taken the wrong way round
ResponseTime_Reversed(start_time, clock) == start_time - clock

\* (datetime.now() - start_time).total_seconds(), with clock the value
\* datetime.now() returns
ResponseTime(start_time, clock) == clock - start_time

\* (mutant) the pattern is tested with "is not None"
prepare_website_metrics_NoneCheck(resp, start_time, url, regexp_pattern, entered_at) ==
  [url |-> url,
   request_timestamp |-> start_time,
   response_time |-> ResponseTime(start_time, entered_at),
   status_code |-> resp.status,
   pattern_found |->
     IF regexp_pattern # <<>>
       THEN re_search(regexp_pattern[1], resp.body)
       ELSE FALSE]

\* prepare_website_metrics: regexp_pattern is <<>> for None, <<p>> for a string;
\* an empty string is falsy, like None; entered_at is the clock on entry, when
\* response_time is computed, before response.text() is awaited
prepare_website_metrics(resp, start_time, url, regexp_pattern, entered_at) ==
  [url |-> url,
   request_timestamp |-> start_time,
   response_time |-> ResponseTime(start_time, entered_at),
   status_code |-> resp.status,
   pattern_found |->
     IF regexp_pattern # <<>> /\ regexp_pattern[1] # ""
       THEN re_search(regexp_pattern[1], resp.body)
       ELSE FALSE]

\* ------------------------------------------------------------- the store
\* the parameters save_metrics declares
save_metrics_params ==
  <<"url", "request_timestamp", "response_time", "status_code",
    "pattern_found", "conn">>

\* the positional arguments check_website_once passes to save_metrics
SaveMetricsArgs(m, conn) == <<m, conn>>

\* the call save_metrics(*args): Python binds the arguments to the parameters
\* (none has a default) and raises TypeError when their numbers differ; bound,
\* the INSERT adds one row built from the first five arguments, or the store
\* rejects it
save_metrics(args, store_ok) ==
  IF Len(args) # Len(save_metrics_params)
    THEN [exc |-> "TypeError", rows |-> <<>>]
  ELSE IF store_ok
    THEN [exc |-> "",
          rows |-> << [url |-> args[1], request_timestamp |-> args[2],
                       response_time |-> args[3], status_code |-> args[4],
                       pattern_found |-> args[5]] >>]
  ELSE [exc |-> "PostgresError", rows |-> <<>>]

\* ------------------------------------------------------------- semaphore
\* (mutant) acquire() never waits
SemLocked_Never == FALSE

\* sem.locked(): no permit, or a waiter whose future is not cancelled
SemLocked ==
  \/ sem_value = 0
  \/ \E k \in 1..Len(sem_waiters) : pc[sem_waiters[k]] # "sem_cancelled"

\* (mutant) no waiter is ever found pending
FirstPending_None(waiters, pcs, k) == 0

\* the first waiter whose future is not done (0 when there is none)
RECURSIVE FirstPending(_, _, _)
FirstPending(waiters, pcs, k) ==
  IF k > Len(waiters) THEN 0
  ELSE IF pcs[waiters[k]] = "sem_wait" THEN waiters[k]
  ELSE FirstPending(waiters, pcs, k + 1)

\* (mutant) the wake-up is lost
WakeUpNext_Lost(v, waiters, pcs) == [value |-> v, woken |-> 0]

\* sem._wake_up_next() on a semaphore of value v: the first pending waiter
\* takes a permit and its future is resolved
WakeUpNext(v, waiters, pcs) ==
  LET w == FirstPending(waiters, pcs, 1) IN
    IF w = 0 THEN [value |-> v, woken |-> 0]
    ELSE [value |-> v - 1, woken |-> w]

\* sem.release()
SemRelease(v, waiters, pcs) == WakeUpNext(v + 1, waiters, pcs)

\* (mutant) the permit is not given back
SemExit_Leak(v, waiters, pcs) == [value |-> v, woken |-> 0]

\* leaving "async with sem", normally or with an exception: sem.release()
SemExit(v, waiters, pcs) == SemRelease(v, waiters, pcs)

\* the sequence s without the element x
Without(s, x) == SelectSeq(s, LAMBDA y : y # x)

\* ------------------------------------------------------ check_website
\* (mutant) the except clauses raise the exception again
AfterCycle_Reraise(exc) ==
  IF exc = "" THEN "sleeping"
  ELSE IF exc = "CancelledError" THEN "cancelled"
  ELSE "failed"

\* the state a task is left in when exc leaves the try block of
\* check_website_once: handled, the task sleeps again; not handled, the
\* exception leaves check_website and ends the task
AfterCycle(exc) ==
  IF exc = "" \/ Handler(exc) # "" THEN "sleeping"
  ELSE IF exc = "CancelledError" THEN "cancelled"
  ELSE "failed"

\* (mutant) the record of the cycle is kept when the cycle ends
EndCycle_KeepRecord(i, exc, phase, c, woken) ==
  /\ pc' = [k \in Loops |->
              IF k = i THEN AfterCycle(exc)
              ELSE IF k = woken THEN "sem_woken"
              ELSE pc[k]]
  /\ response' = [response EXCEPT ![i] = <<>>]
  /\ metrics' = metrics
  /\ cycle' = [cycle EXCEPT ![i] =
                 [c EXCEPT !.exc = exc, !.phase = phase,
                           !.handler = Handler(exc)]]

\* the cycle of task i ends with exc ("" for none) raised in phase; the
\* response and the session are closed, the record is dropped; woken is the
\* waiter a release on the way out has woken (0: none)
EndCycle(i, exc, phase, c, woken) ==
  /\ pc' = [k \in Loops |->
              IF k = i THEN AfterCycle(exc)
              ELSE IF k = woken THEN "sem_woken"
              ELSE pc[k]]
  /\ response' = [response EXCEPT ![i] = <<>>]
  /\ metrics' = [metrics EXCEPT ![i] = <<>>]
  /\ cycle' = [cycle EXCEPT ![i] =
                 [c EXCEPT !.exc = exc, !.phase = phase,
                           !.handler = Handler(exc)]]

\* await asyncio.sleep(interval) is over: check_website_once opens a
\* session and issues the GET
SleepExpire(i) ==
  /\ main_pc = "gathering"
  /\ pc[i] = "sleeping"
  /\ pc' = [pc EXCEPT ![i] = "request"]
  /\ cycle' = [cycle EXCEPT ![i] = [NewCycle EXCEPT !.start_time = now]]
  /\ UNCHANGED <<input_vars, main_vars, db_vars, sem_vars, tasks, response,
                 metrics>>

\* session.get(url) answers or raises; answered, prepare_website_metrics
\* reads the status and awaits response.text()
RequestDone(i) ==
  /\ main_pc = "gathering"
  /\ pc[i] = "request"
  /\ \E exc \in {"", "ClientError", "Exception"} :
       IF exc = ""
         THEN /\ \E r \in Responses : response' = [response EXCEPT ![i] = <<r>>]
              /\ pc' = [pc EXCEPT ![i] = "body"]
              /\ cycle' = [cycle EXCEPT ![i].entered_at = now]
              /\ metrics' = metrics
         ELSE EndCycle(i, exc, "request", cycle[i], 0)
  /\ UNCHANGED <<input_vars, main_vars, db_vars, sem_vars, tasks>>

\* (mutant) the response is closed before the task goes to the gate
BodyDone_CloseFirst(i) ==
  /\ main_pc = "gathering"
  /\ pc[i] = "body"
  /\ \E exc \in {"", "ClientError", "Exception"} :
       IF exc = ""
         THEN /\ metrics' = [metrics EXCEPT ![i] =
                   <<prepare_website_metrics(response[i][1],
                                             cycle[i].start_time, tasks[i].url,
                                             tasks[i].regexp_pattern,
                                             cycle[i].entered_at)>>]
              /\ response' = [response EXCEPT ![i] = <<>>]
              /\ IF SemLocked
                   THEN /\ sem_waiters' = Append(sem_waiters, i)
                        /\ sem_value' = sem_value
                        /\ pc' = [pc EXCEPT ![i] = "sem_wait"]
                        /\ cycle' = [cycle EXCEPT ![i].built = TRUE,
                                                  ![i].read_at = now]
                   ELSE /\ sem_value' = sem_value - 1
                        /\ sem_waiters' = sem_waiters
                        /\ pc' = [pc EXCEPT ![i] = "pool_acquire"]
                        /\ cycle' = [cycle EXCEPT ![i].built = TRUE,
                                                  ![i].read_at = now,
                                                  ![i].gated = TRUE]
         ELSE /\ EndCycle(i, exc, "prepare", cycle[i], 0)
              /\ UNCHANGED sem_vars
  /\ UNCHANGED <<input_vars, main_vars, db_vars, tasks>>

\* (mutant) the write block is entered without "async with sem"
BodyDone_Bypass(i) ==
  /\ main_pc = "gathering"
  /\ pc[i] = "body"
  /\ \E exc \in {"", "ClientError", "Exception"} :
       IF exc = ""
         THEN /\ metrics' = [metrics EXCEPT ![i] =
                   <<prepare_website_metrics(response[i][1],
                                             cycle[i].start_time, tasks[i].url,
                                             tasks[i].regexp_pattern,
                                             cycle[i].entered_at)>>]
              /\ response' = response
              /\ pc' = [pc EXCEPT ![i] = "pool_acquire"]
              /\ cycle' = [cycle EXCEPT ![i].built = TRUE,
                                        ![i].read_at = now]
              /\ UNCHANGED sem_vars
         ELSE /\ EndCycle(i, exc, "prepare", cycle[i], 0)
              /\ UNCHANGED sem_vars
  /\ UNCHANGED <<input_vars, main_vars, db_vars, tasks>>

\* response.text() returns or raises; returned, the record is built and
\* logged and the task enters "async with sem": sem.acquire() takes a permit
\* at once or queues the task
BodyDone(i) ==
  /\ main_pc = "gathering"
  /\ pc[i] = "body"
  /\ \E exc \in {"", "ClientError", "Exception"} :
       IF exc = ""
         THEN /\ metrics' = [metrics EXCEPT ![i] =
                   <<prepare_website_metrics(response[i][1],
                                             cycle[i].start_time, tasks[i].url,
                                             tasks[i].regexp_pattern,
                                             cycle[i].entered_at)>>]
              /\ response' = response
              /\ IF SemLocked
                   THEN /\ sem_waiters' = Append(sem_waiters, i)
                        /\ sem_value' = sem_value
                        /\ pc' = [pc EXCEPT ![i] = "sem_wait"]
                        /\ cycle' = [cycle EXCEPT ![i].built = TRUE,
                                                  ![i].read_at = now]
                   ELSE /\ sem_value' = sem_value - 1
                        /\ sem_waiters' = sem_waiters
                        /\ pc' = [pc EXCEPT ![i] = "pool_acquire"]
                        /\ cycle' = [cycle EXCEPT ![i].built = TRUE,
                                                  ![i].read_at = now,
                                                  ![i].gated = TRUE]
         ELSE /\ EndCycle(i, exc, "prepare", cycle[i], 0)
              /\ UNCHANGED sem_vars
  /\ UNCHANGED <<input_vars, main_vars, db_vars, tasks>>

\* the task whose future _wake_up_next resolved runs again: it leaves the
\* queue, wakes the next waiter if a permit is free, and holds its permit
SemResume(i) ==
  /\ main_pc = "gathering"
  /\ pc[i] = "sem_woken"
  /\ LET rest == Without(sem_waiters, i)
         r == IF sem_value > 0 THEN WakeUpNext(sem_value, rest, pc)
              ELSE [value |-> sem_value, woken |-> 0]
     IN /\ sem_waiters' = rest
        /\ sem_value' = r.value
        /\ pc' = [k \in Loops |->
                    IF k = i THEN "pool_acquire"
                    ELSE IF k = r.woken THEN "sem_woken"
                    ELSE pc[k]]
  /\ cycle' = [cycle EXCEPT ![i].gated = TRUE]
  /\ UNCHANGED <<input_vars, main_vars, db_vars, tasks, response, metrics>>

\* pool.acquire() hands out a free connection or raises; with a connection
\* the task calls save_metrics and then gives the connection back
\* (pool.release awaits the server); raising, it leaves "async with sem",
\* which releases the permit
PoolAcquired(i) ==
  /\ main_pc = "gathering"
  /\ pc[i] = "pool_acquire"
  /\ \E exc \in {"", "PostgresError", "Exception"} :
       IF exc = ""
         THEN /\ pool_free > 0
              /\ pool_free' = pool_free - 1
              /\ \E store_ok \in BOOLEAN :
                   LET r == save_metrics(SaveMetricsArgs(metrics[i][1], "conn"),
                                         store_ok)
                   IN /\ website_metrics' = website_metrics \o r.rows
                      /\ cycle' = [cycle EXCEPT ![i].exc = r.exc,
                                                ![i].phase = "save",
                                                ![i].rows = Len(r.rows)]
              /\ pc' = [pc EXCEPT ![i] = "releasing"]
              /\ UNCHANGED <<sem_vars, response, metrics>>
         ELSE LET r == SemExit(sem_value, sem_waiters, pc) IN
                /\ sem_value' = r.value
                /\ sem_waiters' = sem_waiters
                /\ EndCycle(i, exc, "pool", cycle[i], r.woken)
                /\ UNCHANGED <<pool_free, website_metrics>>
  /\ UNCHANGED <<input_vars, main_vars, create_table_calls, schema, tasks>>

\* the connection is back in the pool: the task leaves "async with sem",
\* closes the response and the session, and the exception save_metrics
\* raised, if any, reaches the except clauses
ReleaseDone(i) ==
  /\ main_pc = "gathering"
  /\ pc[i] = "releasing"
  /\ pool_free' = pool_free + 1
  /\ LET r == SemExit(sem_value, sem_waiters, pc) IN
       /\ sem_value' = r.value
       /\ sem_waiters' = sem_waiters
       /\ EndCycle(i, cycle[i].exc, cycle[i].phase, cycle[i], r.woken)
  /\ UNCHANGED <<input_vars, main_vars, create_table_calls, schema,
                 website_metrics, tasks>>

\* time passes while the tasks run: the clock moves on
Tick ==
  /\ main_pc = "gathering"
  /\ now < MaxClock
  /\ now' = now + 1
  /\ UNCHANGED <<settings_env, input_file, main_vars, db_vars, sem_vars,
                 tasks, loop_vars>>

\* ---------------------------------------------------------- cancellation
\* (mutant) a task cancelled after its future was resolved keeps the permit
Unwind_WokenLeak(st, i) ==
  LET holds == st.pc[i] \in {"pool_acquire", "releasing"}
      rest == Without(st.waiters, i)
      r == IF holds THEN SemExit(st.value, rest, st.pc)
           ELSE [value |-> st.value, woken |-> 0]
  IN [pc |-> [k \in Loops |->
                IF k = i THEN AfterCycle("CancelledError")
                ELSE IF k = r.woken THEN "sem_woken"
                ELSE st.pc[k]],
      waiters |-> rest,
      value |-> r.value,
      free |-> IF st.pc[i] = "releasing" THEN st.free + 1 ELSE st.free]

\* CancelledError raised at the await of task i, in the state st of the
\* tasks and the semaphore: the context managers the task is in unwind (a
\* queued task leaves the queue; a task whose future was resolved, or that
\* is past the gate, gives its permit back; pool.release is shielded, so the
\* connection returns to the pool), and no except clause handles the error
Unwind(st, i) ==
  LET holds == st.pc[i] \in {"sem_woken", "pool_acquire", "releasing"}
      rest == Without(st.waiters, i)
      r == IF holds THEN SemExit(st.value, rest, st.pc)
           ELSE [value |-> st.value, woken |-> 0]
  IN [pc |-> [k \in Loops |->
                IF k = i THEN AfterCycle("CancelledError")
                ELSE IF k = r.woken THEN "sem_woken"
                ELSE st.pc[k]],
      waiters |-> rest,
      value |-> r.value,
      free |-> IF st.pc[i] = "releasing" THEN st.free + 1 ELSE st.free]

\* the started tasks run one after the other, each with its CancelledError
RECURSIVE UnwindAll(_, _, _)
UnwindAll(st, i, n) ==
  IF i > n THEN st ELSE UnwindAll(Unwind(st, i), i + 1, n)

\* main is cancelled while it awaits gather: gather cancels every task, which
\* cancels the future of each task queued in sem.acquire(); then every task
\* unwinds
Cancel ==
  /\ main_pc = "gathering"
  /\ LET st == UnwindAll(
                 [pc |-> [k \in Loops |->
                            IF pc[k] = "sem_wait" THEN "sem_cancelled" ELSE pc[k]],
                  waiters |-> sem_waiters, value |-> sem_value,
                  free |-> pool_free],
                 1, Len(tasks))
     IN /\ pc' = st.pc
        /\ sem_waiters' = st.waiters
        /\ sem_value' = st.value
        /\ pool_free' = st.free
  /\ main_pc' = "cancelling"
  /\ response' = [i \in Loops |-> <<>>]
  /\ metrics' = [i \in Loops |-> <<>>]
  /\ cycle' = [i \in Loops |->
                 IF i \in Started(tasks) THEN [NewCycle EXCEPT !.phase = pc[i]]
                 ELSE NewCycle]
  /\ UNCHANGED <<input_vars, main_exc, create_table_calls, schema,
                 website_metrics, tasks>>

\* every task has ended: gather raises CancelledError in main
MainCancelled ==
  /\ main_pc = "cancelling"
  /\ \A i \in Started(tasks) : pc[i] = "cancelled"
  /\ MainRaise("CancelledError")
  /\ UNCHANGED <<input_vars, db_vars, sem_vars, tasks, loop_vars>>

\* --------------------------------------------------------- specification
Next ==
  \/ MainSettings
  \/ MainCreatePool
  \/ MainCreateTable
  \/ MainLoadConfig
  \/ MainBuildTasks
  \/ MainGather
  \/ Cancel
  \/ MainCancelled
  \/ \E i \in Loops :
       \/ SleepExpire(i)
       \/ RequestDone(i)
       \/ BodyDone(i)
       \/ SemResume(i)
       \/ PoolAcquired(i)
       \/ ReleaseDone(i)

Spec == Init /\ [][Next]_vars

\* a step of task i
LoopStep(i) ==
  \/ SleepExpire(i)
  \/ RequestDone(i)
  \/ BodyDone(i)
  \/ SemResume(i)
  \/ PoolAcquired(i)
  \/ ReleaseDone(i)

\* the event loop runs every task that is ready: a timer that has expired,
\* an answer or an error of the network or of the database, a future that was
\* resolved. Each task whose next step is possible takes it in the end;
\* nothing makes the cancellation of main happen
FairTasks == \A i \in Loops : WF_vars(LoopStep(i))

\* the runs in which the gate matters: the settings are usable and every
\* entry of the config is the same valid entry, so that the tasks differ in
\* nothing but their place at the gate
InitFair ==
  /\ Init
  /\ settings_env.ok
  /\ input_file.json
  /\ \A k \in 1..Len(input_file.value) :
       input_file.value[k] = [url |-> JStr("http://a"), interval |-> JInt(1),
                              regexp_pattern |-> JAbsent]

FairSpec == InitFair /\ [][Next]_vars /\ FairTasks

\* ------------------------------------------- one monitor, a running clock
\* the values of "interval" and of "regexp_pattern" a single-entry config is
\* explored with
ProbeIntervals == {-1, 0, 1}
ProbePatterns == {JAbsent, JNull, JStr(""), JStr("Health"), JStr("Example")}

ProbeEntries ==
  { [url |-> JStr("http://a"), interval |-> JInt(n), regexp_pattern |-> p] :
      n \in ProbeIntervals, p \in ProbePatterns }

\* main is run on a config of one entry, with one permit and one connection
InitProbe ==
  /\ settings_env = [ok |-> TRUE, semaphore_max_concurrent |-> 1,
                     pool_max_size |-> 1]
  /\ input_file \in { [json |-> TRUE, value |-> <<e>>] : e \in ProbeEntries }
  /\ main_pc = "settings"
  /\ main_exc = ""
  /\ pool_free = 0
  /\ create_table_calls = 0
  /\ schema = FALSE
  /\ website_metrics = <<>>
  /\ sem_value = 0
  /\ sem_waiters = <<>>
  /\ tasks = <<>>
  /\ pc = [i \in Loops |-> "unstarted"]
  /\ response = [i \in Loops |-> <<>>]
  /\ metrics = [i \in Loops |-> <<>>]
  /\ cycle = [i \in Loops |-> NewCycle]
  /\ now = 0

\* the steps of main and of the one task (which never queues at the
\* semaphore), and the clock
NextProbe ==
  \/ MainSettings
  \/ MainCreatePool
  \/ MainCreateTable
  \/ MainLoadConfig
  \/ MainBuildTasks
  \/ MainGather
  \/ Cancel
  \/ MainCancelled
  \/ Tick
  \/ \E i \in Loops :
       \/ SleepExpire(i)
       \/ RequestDone(i)
       \/ BodyDone(i)
       \/ PoolAcquired(i)
       \/ ReleaseDone(i)

SpecProbe == InitProbe /\ [][NextProbe]_vars

\* ------------------------------------------------------------- properties
Capacity == settings_env.semaphore_max_concurrent

\* the tasks inside "async with sem, pool.acquire()"
InGate == {i \in Loops : pc[i] \in {"pool_acquire", "releasing"}}

\* the tasks that hold a permit: inside the block, or handed one by a release
\* and not yet running again
Holders == {i \in Loops : pc[i] \in {"sem_woken", "pool_acquire", "releasing"}}

\* the tasks whose record is built and that have reached the gate
ReadyToWrite ==
  {i \in Loops : pc[i] \in {"sem_wait", "sem_woken", "pool_acquire", "releasing"}}

\* C1: with gate capacity C, at most C tasks are ever inside the gated
\* section of check_website_once (acquiring a connection or saving), however
\* many tasks are ready to write.
C1_AtMostCapacityInGate ==
  Cardinality(InGate) <= IF main_pc \in {"gathering", "cancelling"}
                           THEN Capacity ELSE 0

\* more tasks are ready to write than the gate admits: the gate is full and a
\* task waits in front of it
C1_Witness ==
  /\ main_pc = "gathering"
  /\ Cardinality(ReadyToWrite) > Capacity
  /\ Cardinality(InGate) = Capacity
  /\ \E i \in Loops : pc[i] = "sem_wait"

\* C2: the permit taken for the write is given back on every way out of the
\* cycle: the free permits and the permits held always add up to the
\* capacity, a task that sleeps holds none, and when no task holds a permit
\* the next arrival at the gate is admitted at once.
C2_PermitReleased ==
  main_pc = "gathering" =>
    /\ sem_value >= 0
    /\ sem_value + Cardinality(Holders) = Capacity
    /\ Holders = {} => ~SemLocked

\* on a gate of capacity 1 two write cycles were admitted and failed, one in
\* the save_metrics call, one in pool.acquire(), and the permit is free again
C2_Witness ==
  /\ main_pc = "gathering"
  /\ Capacity = 1
  /\ \E i, j \in Loops :
       /\ pc[i] = "sleeping" /\ cycle[i].gated
       /\ cycle[i].phase = "save" /\ cycle[i].exc = "TypeError"
       /\ pc[j] = "sleeping" /\ cycle[j].gated
       /\ cycle[j].phase = "pool" /\ cycle[j].exc = "PostgresError"
  /\ sem_value = Capacity
  /\ ~SemLocked

\* C3: no cycle lets an exception out of the task: whatever phase raises and
\* whatever Exception it is, an except clause handles it and the task sleeps
\* again; a task ends only by cancellation.
C3_NoExceptionEscapes ==
  \A i \in Loops :
    /\ pc[i] # "failed"
    /\ pc[i] = "cancelled" => main_pc \in {"cancelling", "raised"}
    /\ (cycle[i].exc # "" /\ pc[i] # "releasing") =>
         (pc[i] = "sleeping" /\ cycle[i].handler # "")

\* two tasks sleep after a failed cycle: one after a ClientError of the
\* request, handled by the first clause, one after the TypeError of the
\* save_metrics call, handled by the last
C3_Witness ==
  \E i, k \in Loops :
    /\ pc[i] = "sleeping" /\ cycle[i].exc = "ClientError"
    /\ cycle[i].phase = "request" /\ cycle[i].handler = "ClientError"
    /\ pc[k] = "sleeping" /\ cycle[k].exc = "TypeError"
    /\ cycle[k].phase = "save" /\ cycle[k].handler = "Exception"

\* C4 (as claimed): whatever the other tasks do, a running task can always
\* take its next step; no task is ever held up by another.
C4_NeverDelayed ==
  main_pc = "gathering" =>
    \A b \in Started(tasks) : ENABLED LoopStep(b)

\* C4 (amended): a task is held up by other tasks only at the gate or at the
\* pool: a task that cannot take a step is queued in sem.acquire() while
\* another task holds a permit, and a task that finds no free connection waits
\* for a task that is giving one back; a failed, sleeping or probing task
\* holds up nobody.
C4_HeldUpOnlyAtGate ==
  main_pc = "gathering" =>
    \A b \in Started(tasks) :
      /\ ~ENABLED LoopStep(b) =>
           (pc[b] = "sem_wait" /\ Holders \ {b} # {})
      /\ (pc[b] = "pool_acquire" /\ pool_free = 0) =>
           \E a \in Started(tasks) \ {b} : pc[a] = "releasing"

\* a task waits at the gate, unable to take a step, behind a task that holds
\* the permit while its failed write gives the connection back
C4_Witness ==
  /\ main_pc = "gathering"
  /\ \E a, b \in Started(tasks) :
       /\ pc[b] = "sem_wait" /\ ~ENABLED LoopStep(b)
       /\ pc[a] = "releasing" /\ cycle[a].exc = "TypeError"

\* the row r holds the fields of the record m
RowOf(r, m) ==
  /\ r.url = m.url
  /\ r.status_code = m.status_code
  /\ r.pattern_found = m.pattern_found

\* C5: a cycle whose probe succeeded and whose write the store did not
\* reject has added exactly one row, which holds the fields of the record.
C5_OneRowPerCycle ==
  \A i \in Loops :
    (pc[i] = "releasing" /\ cycle[i].exc # "PostgresError") =>
      /\ cycle[i].rows = 1
      /\ \E k \in 1..Len(website_metrics) :
           RowOf(website_metrics[k], metrics[i][1])

\* C6: a cycle whose request fails with a ClientError builds no record, never
\* reaches the gate, writes no row, and the task sleeps again and can start
\* the next probe.
C6_ClientErrorSkipsWrite ==
  \A i \in Loops :
    (cycle[i].exc = "ClientError" /\ cycle[i].phase = "request") =>
      /\ pc[i] = "sleeping"
      /\ cycle[i].handler = "ClientError"
      /\ ~cycle[i].built /\ ~cycle[i].gated /\ cycle[i].rows = 0
      /\ metrics[i] = <<>>
      /\ i \notin Holders
      /\ main_pc = "gathering" => ENABLED SleepExpire(i)

\* a task sleeps after a request that failed with a ClientError
C6_Witness ==
  \E i \in Loops :
    /\ main_pc = "gathering"
    /\ pc[i] = "sleeping"
    /\ cycle[i].exc = "ClientError" /\ cycle[i].phase = "request"

C8_OneLoopPerSpec ==
  main_pc \in {"gathering", "returned"} =>
    /\ Len(tasks) = Len(input_file.value)
    /\ {i \in Loops : pc[i] # "unstarted"} = 1..Len(input_file.value)
    /\ \A k \in 1..Len(input_file.value) :
         LET e == input_file.value[k] IN
           /\ tasks[k].url = e.url.s
           /\ tasks[k].interval = e.interval.n
           /\ tasks[k].regexp_pattern =
                IF e.regexp_pattern.t = "str" THEN <<e.regexp_pattern.s>>
                ELSE <<>>

\* the tasks of a config of several entries, not all alike, are running
C8_Witness ==
  /\ main_pc = "gathering"
  /\ Len(tasks) = Len(input_file.value)
  /\ Len(tasks) >= 2
  /\ \E j, k \in 1..Len(tasks) : tasks[j].url # tasks[k].url
  /\ \A k \in 1..Len(tasks) : pc[k] # "unstarted"

\* main is past the block that creates the table
PastCreateTable ==
  main_pc \in {"load_config", "build_tasks", "gather", "gathering", "returned",
               "cancelling"}

\* C9: create_table runs exactly once in a run of main and is over before any
\* task starts: a task that has started finds the table created, and the
\* table is never created a second time.
C9_SchemaOnceBeforeLoops ==
  /\ create_table_calls <= 1
  /\ PastCreateTable => (create_table_calls = 1 /\ schema)
  /\ (\E i \in Loops : pc[i] # "unstarted") =>
       (create_table_calls = 1 /\ schema)

\* a task is in its write phase and create_table has run once
C9_Witness ==
  /\ \E i \in Loops : pc[i] = "releasing"
  /\ create_table_calls = 1
  /\ schema

\* C10: when create_table fails, main raises the error to its caller and
\* nothing is polled: no task is built or started and no row is written.
C10_SchemaFailureIsFatal ==
  (create_table_calls >= 1 /\ ~schema) =>
    /\ main_pc = "raised"
    /\ main_exc = "PostgresError"
    /\ tasks = <<>>
    /\ \A i \in Loops : pc[i] = "unstarted"
    /\ website_metrics = <<>>
    /\ ~ENABLED Next

\* create_table has failed and main has raised
C10_Witness ==
  /\ create_table_calls = 1
  /\ ~schema
  /\ main_pc = "raised"
  /\ main_exc = "PostgresError"

\* the exceptions main raises before any task exists
StartupErrors ==
  {"SettingsInitializationError", "PostgresError",
   "ConfigDeserializationError", "KeyError", "ValidationError"}

\* C11 as stated: main never completes normally, whatever the config,
\* the empty list included.
C11_NeverReturns == main_pc # "returned"

\* C11: with at least one entry in the config, main ends only by the
\* cancellation of the task group or by a failure of the startup; main
\* returns normally exactly when the config is the empty list, for which
\* gather is done at once.
C11_ReturnsOnlyOnEmptyConfig ==
  /\ main_pc = "returned" =>
       (input_file.json /\ input_file.value = <<>> /\ tasks = <<>>)
  /\ (main_pc = "raised" /\ tasks # <<>>) => main_exc = "CancelledError"
  /\ (main_pc = "raised" /\ tasks = <<>>) => main_exc \in StartupErrors
  /\ (main_pc \in {"gathering", "cancelling"}) => tasks # <<>>

\* the task group of a non-empty config was cancelled while a task was
\* probing, and main has ended with CancelledError
C11_Witness ==
  /\ main_pc = "raised"
  /\ main_exc = "CancelledError"
  /\ tasks # <<>>
  /\ \A i \in Started(tasks) : pc[i] = "cancelled"
  /\ \E i \in Started(tasks) : cycle[i].phase = "request"

\* the "regexp_pattern" of the config entry task i was built from is a
\* non-empty string
PatternConfigured(i) ==
  /\ input_file.value[i].regexp_pattern.t = "str"
  /\ input_file.value[i].regexp_pattern.s # ""

\* C12: the record a probe produces has pattern_found true exactly when the
\* entry configures a non-empty pattern and that pattern matches somewhere in
\* the body that was read; with the key absent, null or the empty string it
\* is false whatever the body.
C12_PatternFoundIffConfiguredAndMatches ==
  \A i \in Loops :
    metrics[i] # <<>> =>
      /\ metrics[i][1].pattern_found <=>
           /\ PatternConfigured(i)
           /\ re_search(input_file.value[i].regexp_pattern.s,
                        response[i][1].body)
      /\ ~PatternConfigured(i) => ~metrics[i][1].pattern_found

\* a record was produced for an entry whose pattern is the empty string,
\* which would match any body
C12_Witness ==
  \E i \in Loops :
    /\ metrics[i] # <<>>
    /\ input_file.value[i].regexp_pattern = JStr("")
    /\ re_search("", response[i][1].body)
    /\ ~metrics[i][1].pattern_found

LoopOrder ==
  { <<"unstarted", "sleeping">>,
    <<"sleeping", "request">>,
    <<"request", "body">>, <<"request", "sleeping">>,
    <<"body", "sem_wait">>, <<"body", "pool_acquire">>, <<"body", "sleeping">>,
    <<"sem_wait", "sem_woken">>,
    <<"sem_woken", "pool_acquire">>,
    <<"pool_acquire", "releasing">>, <<"pool_acquire", "sleeping">>,
    <<"releasing", "sleeping">> }
    \cup { <<p, "cancelled">> :
             p \in {"sleeping", "request", "body", "sem_wait", "sem_woken",
                    "pool_acquire", "releasing"} }

\* C14: the cycles of one task are sequential and start with the sleep: a
\* started task sleeps first, a request is only ever issued by a task that
\* was asleep, each step follows the order sleep, request, body, gate, write,
\* sleep, and when a task issues a request nothing of its previous cycle is
\* left open (no response, no record, no place in the queue, no permit).
C14_SleepFirstSequential ==
  [][\A i \in Loops :
       /\ pc'[i] # pc[i] => <<pc[i], pc'[i]>> \in LoopOrder
       /\ pc'[i] = "request" =>
            /\ pc[i] \in {"sleeping", "request"}
            /\ response'[i] = <<>>
            /\ metrics'[i] = <<>>
            /\ \A k \in 1..Len(sem_waiters') : sem_waiters'[k] # i]_vars

\* a task that has been through a whole cycle, write included, is asleep
\* again, and the request of its next cycle is the step it can take
C14_Witness ==
  \E i \in Loops :
    /\ pc[i] = "sleeping"
    /\ cycle[i].phase = "save"
    /\ cycle[i].gated
    /\ ENABLED SleepExpire(i)

WithConnection == {i \in Loops : pc[i] = "releasing"}

\* C16: no task gets round the gate. A task that acquires or holds a pool
\* connection, or runs save_metrics, has taken a permit in this cycle and
\* still holds it; the permits that are out are exactly those of the tasks
\* at or past their admission, so a task that sleeps or probes holds none;
\* and the connections that are out are with tasks inside the gate.
C16_NoBypass ==
  main_pc = "gathering" =>
    /\ \A i \in InGate : cycle[i].gated /\ i \in Holders
    /\ \A i \in Loops :
         pc[i] \in {"request", "body", "sem_wait"} => ~cycle[i].gated
    /\ Capacity - sem_value = Cardinality(Holders)
    /\ settings_env.pool_max_size - pool_free = Cardinality(WithConnection)
    /\ WithConnection \subseteq InGate

\* one task holds a connection and a permit while another probes with none
C16_Witness ==
  \E i, j \in Loops :
    /\ main_pc = "gathering"
    /\ pc[i] = "releasing"
    /\ cycle[i].gated
    /\ pc[j] = "body"
    /\ sem_value = Capacity - 1
    /\ pool_free = settings_env.pool_max_size - 1

\* the task group has been cancelled
GroupCancelled ==
  \/ main_pc = "cancelling"
  \/ main_pc = "raised" /\ main_exc = "CancelledError"

\* C17: once the task group is cancelled, every started task has ended with
\* CancelledError, wherever it was (asleep, probing, queued at the gate,
\* handed a permit, writing), none takes a further step, the semaphore has
\* all its permits and an empty queue, and the pool has all its connections.
C17_CancelLeaksNoPermit ==
  GroupCancelled =>
    /\ \A i \in Started(tasks) : pc[i] = "cancelled"
    /\ \A i \in Loops : ~ENABLED LoopStep(i)
    /\ sem_value = Capacity
    /\ sem_waiters = <<>>
    /\ pool_free = settings_env.pool_max_size

\* the group was cancelled while one task was writing and another was queued
\* at the gate
C17_Witness ==
  \E i, j \in Loops :
    /\ GroupCancelled
    /\ cycle[i].phase = "releasing"
    /\ cycle[j].phase = "sem_wait"
    /\ pc[i] = "cancelled"
    /\ pc[j] = "cancelled"
    /\ sem_value = Capacity

\* no task was built or started and no row was written
NothingPolled ==
  /\ tasks = <<>>
  /\ \A i \in Loops : pc[i] = "unstarted" /\ response[i] = <<>>
  /\ website_metrics = <<>>

\* C18: when Settings() cannot be built, main raises
\* SettingsInitializationError at its first step; when the input is not JSON,
\* main raises ConfigDeserializationError once it reads it (after the pool
\* and the table were created); either way no task is built or started and
\* no request is issued.
C18_StartupFailureTyped ==
  /\ (~settings_env.ok /\ main_pc # "settings") =>
       /\ main_pc = "raised"
       /\ main_exc = "SettingsInitializationError"
       /\ create_table_calls = 0
  /\ main_exc = "SettingsInitializationError" => ~settings_env.ok
  /\ (~input_file.json /\ main_pc \notin {"settings", "create_pool",
                                          "create_table", "load_config"}) =>
       /\ main_pc = "raised"
       /\ (settings_env.ok /\ schema) =>
            main_exc = "ConfigDeserializationError"
  /\ main_exc = "ConfigDeserializationError" => ~input_file.json
  /\ (~settings_env.ok \/ ~input_file.json) => NothingPolled
  /\ main_exc \in {"SettingsInitializationError",
                   "ConfigDeserializationError"} =>
       (main_pc = "raised" /\ NothingPolled /\ ~ENABLED Next)

\* main has read an input that is not JSON and has raised
\* ConfigDeserializationError
C18_Witness ==
  /\ ~input_file.json
  /\ settings_env.ok
  /\ schema
  /\ main_pc = "raised"
  /\ main_exc = "ConfigDeserializationError"
  /\ NothingPolled

\* C19: every task that was started has an interval > 0 (an entry whose
\* interval is zero or negative is rejected when its MonitorParams is built).
C19_RunningLoopsHavePositiveInterval ==
  \A i \in Loops :
    pc[i] # "unstarted" => (i \in Started(tasks) /\ tasks[i].interval > 0)

\* the entries of the config from which MonitorParams cannot be built
InvalidEntries ==
  {k \in 1..Len(input_file.value) :
     MonitorParamsError(input_file.value[k]) # ""}

\* C20: the loops start all together or not at all. With one entry of the
\* config invalid, main raises the error of building it (KeyError or
\* ValidationError) and no task is ever started, those of the valid entries
\* before it included; a task runs only when every entry was built.
C20_AllOrNothing ==
  /\ InvalidEntries # {} =>
       /\ NothingPolled
       /\ main_pc \notin {"gather", "gathering", "returned", "cancelling"}
  /\ (InvalidEntries # {} /\ main_pc = "raised" /\ settings_env.ok /\ schema) =>
       main_exc \in {"KeyError", "ValidationError"}
  /\ main_exc \in {"KeyError", "ValidationError"} =>
       /\ InvalidEntries # {}
       /\ main_pc = "raised"
       /\ NothingPolled
       /\ ~ENABLED Next
  /\ (\E i \in Loops : pc[i] # "unstarted") =>
       /\ InvalidEntries = {}
       /\ Len(tasks) = Len(input_file.value)

\* the first entry of the config is valid, the second is not, and main has
\* raised the error of the second
C20_Witness ==
  /\ Len(input_file.value) = 2
  /\ InvalidEntries = {2}
  /\ main_pc = "raised"
  /\ main_exc \in {"KeyError", "ValidationError"}
  /\ NothingPolled

\* the tasks inside "async with session.get(url) as response"
WithOpenResponse == {i \in Loops : response[i] # <<>>}

\* C21: the gate limits the tasks past it, not the probes. From the answer
\* of its request until the end of its cycle (reading the body, queued at
\* the gate, handed a permit, acquiring a connection, writing) a task keeps
\* its response open, so the open responses are not bounded by the capacity
\* while the tasks inside the gate are.
C21_ResponseOpenThroughGate ==
  main_pc = "gathering" =>
    /\ \A i \in Loops :
         pc[i] \in {"body", "sem_wait", "sem_woken", "pool_acquire",
                    "releasing"} <=> i \in WithOpenResponse
    /\ ReadyToWrite \subseteq WithOpenResponse
    /\ Cardinality(InGate) <= Capacity

\* more tasks than the gate has permits, and every one of them holds an open
\* response: as many as there are permits are past the gate, the others are
\* queued in front of it
C21_Witness ==
  /\ main_pc = "gathering"
  /\ Len(tasks) > Capacity
  /\ WithOpenResponse = Started(tasks)
  /\ Cardinality(WithOpenResponse) > Capacity
  /\ Cardinality(InGate) = Capacity
  /\ \E i \in Loops : pc[i] = "sem_wait"

====
